---------------------------- MODULE Spec2Model ----------------------------
(***************************************************************************)
(* The quiz-attempt handlers of src/api/routes/quiz.py over the tables of  *)
(* src/models/database.py.                                                 *)
(*                                                                         *)
(* The store is a transactional relational store at read-committed         *)
(* isolation: every request owns a session whose added rows (tx) are       *)
(* invisible to other sessions until commit and are discarded when the     *)
(* "async with db.begin()" block is left by an exception.  A handler is a  *)
(* sequence of steps, one per awaited store call, so that the requests of  *)
(* two sessions interleave at the awaits.                                  *)
(*                                                                         *)
(* Strings are sequences of code points ("B" is <<66>>).  A float score is *)
(* the exact fraction <<numerator, denominator>>; NULL columns of integer  *)
(* type hold NULL, a NULL score is <<>>.  Records are written with their   *)
(* fields in the order TLC keeps them in (a request's parameters are       *)
(* NoCall with the given ones set), so that no worker reorders them.       *)
(***************************************************************************)
EXTENDS Integers, Sequences, FiniteSets, TLC

\* ------------------------------------------------------------------ bounds
\* Attempt ids the sequence of quiz_attempts.id hands out.
MaxAttempts == 2
\* Longest selected_options list a request carries.
MaxLetters == 2
\* Last reading of the clock.
MaxClock == 1
\* Quiz ids the sequence of quizzes.id hands out.
MaxQuizzes == 5
\* Access tokens handed out before the clients stop logging in.
MaxTokens == 2
\* The sessions (requests in flight at the same time).
Procs == {1, 2}

\* --------------------------------------------------------------- constants
NULL == -1
\* None where a string or a float is expected.
None == <<>>
OrdA == 65
HTTP_OK == 200
HTTP_BAD_REQUEST == 400
HTTP_UNAUTHORIZED == 401
HTTP_FORBIDDEN == 403
HTTP_NOT_FOUND == 404
HTTP_SERVER_ERROR == 500

VARIABLES
    users,             \* table users: set of user ids
    quizzes,           \* table quizzes: rows [id, title, creator_id]
    questions,         \* table questions: rows [id, quiz_id, question_text]
    question_options,  \* table question_options: rows [id, question_id, is_correct]
    quiz_attempts,     \* table quiz_attempts, committed rows
    question_answers,  \* table question_answers, committed rows
    next_attempt_id,   \* sequence behind quiz_attempts.id
    next_answer_id,    \* sequence behind question_answers.id
    next_quiz_id,      \* sequence behind quizzes.id
    next_question_id,  \* sequence behind questions.id
    next_option_id,    \* sequence behind question_options.id
    tokens,            \* the access tokens handed out to clients
    now,               \* datetime.utcnow()
    pc,                \* pc[p]: the step session p is at
    call,              \* call[p]: the request's parameters
    loc,               \* loc[p]: the handler's local variables
    tx,                \* tx[p]: rows added to the session and not yet committed
    resp,              \* resp[p]: the response (status, error, body)
    wrote              \* history: wrote[p], the request of p has changed the committed tables

catalog == <<users, quizzes, questions, question_options>>
store == <<quiz_attempts, question_answers>>
seqs == <<next_attempt_id, next_answer_id>>
catalog_seqs == <<next_quiz_id, next_question_id, next_option_id>>
vars == <<users, quizzes, questions, question_options, quiz_attempts,
          question_answers, next_attempt_id, next_answer_id, next_quiz_id,
          next_question_id, next_option_id, tokens, now,
          pc, call, loc, tx, resp, wrote>>

\* ------------------------------------------------------------ pure helpers
\* str.upper() on a one-character string: ASCII letters, and U+00DF whose
\* upper-casing is the two characters "SS".
UpperChar(c) ==
    IF c >= 97 /\ c <= 122 THEN <<c - 32>>
    ELSE IF c = 223 THEN <<83, 83>>
    ELSE <<c>>

RECURSIVE upper(_)
upper(s) == IF s = <<>> THEN <<>> ELSE UpperChar(Head(s)) \o upper(Tail(s))

\* ord() accepts a string of length one only (TypeError otherwise).
OrdDefined(s) == Len(s) = 1
ord(s) == s[1]
chr(n) == <<n>>

\* select(...).order_by(X.id): the rows in ascending id order.
RECURSIVE OrderById(_)
OrderById(S) ==
    IF S = {} THEN <<>>
    ELSE LET m == CHOOSE x \in S : \A y \in S : x.id <= y.id
         IN  <<m>> \o OrderById(S \ {m})

\* The rows in descending id order.
RECURSIVE OrderByIdDesc(_)
OrderByIdDesc(S) ==
    IF S = {} THEN <<>>
    ELSE LET m == CHOOSE x \in S : \A y \in S : x.id >= y.id
         IN  <<m>> \o OrderByIdDesc(S \ {m})

\* select(Quiz).filter(Quiz.id == quiz_id) ... .first(): {} is None.
FindQuiz(quiz_id) == {q \in quizzes : q.id = quiz_id}
\* (Faulty variant of the user query: it is not filtered by the id.)
FindUserAny(user_id) == users
FindUser(user_id) == {u \in users : u = user_id}

\* Line 67: the quiz's questions in ascending id order.
SubmitQuestions(quiz_id) == OrderById({q \in questions : q.quiz_id = quiz_id})

\* Line 94: the question's options in ascending id order.
SubmitOptions(question_id) ==
    OrderById({o \in question_options : o.question_id = question_id})

\* Line 70: the count check.  (Faulty variants: only too few letters, or
\* only too many, are rejected.)
CountMismatchShort(nq, nl) == nq > nl
CountMismatchLong(nq, nl) == nq < nl
CountMismatch(nq, nl) == nq # nl

\* Line 91.
OptionIndex(letter) == ord(upper(letter)) - OrdA

\* Line 97.  (Faulty variant: the lower bound is not checked.)
InRangeUpperOnly(option_index, n) == option_index < n
InRange(option_index, n) == 0 <= option_index /\ option_index < n

\* options[option_index] as Python indexes a list: a negative index counts
\* from the end; outside -n..n-1 it raises IndexError.
PyIndexDefined(s, i) == -Len(s) <= i /\ i < Len(s)
PyIndex(s, i) == IF i >= 0 THEN s[i + 1] ELSE s[Len(s) + i + 1]

\* Lines 104-109 and 111-116: the rows db.add() receives in one iteration.
\* (Faulty variant: the answer is attached to the first attempt.)
InRangeAnswersFirstAttempt(id, attempt_id, question_id, selected_option) ==
    {[id |-> id, question_id |-> question_id, attempt_id |-> 1,
      selected_option_id |-> selected_option.id,
      is_correct |-> selected_option.is_correct]}
\* (Faulty variant: the answer is stored as correct whatever the option is.)
InRangeAnswersAllCorrect(id, attempt_id, question_id, selected_option) ==
    {[id |-> id, question_id |-> question_id, attempt_id |-> attempt_id,
      selected_option_id |-> selected_option.id,
      is_correct |-> TRUE]}
InRangeAnswers(id, attempt_id, question_id, selected_option) ==
    {[id |-> id, question_id |-> question_id, attempt_id |-> attempt_id,
      selected_option_id |-> selected_option.id,
      is_correct |-> selected_option.is_correct]}

\* (Faulty variant: an out-of-range selection adds no row.)
OutOfRangeSkipped(id, attempt_id, question_id) == {}
\* (Faulty variant: the row without an option is stored as correct.)
OutOfRangeAnswersCorrect(id, attempt_id, question_id) ==
    {[id |-> id, question_id |-> question_id, attempt_id |-> attempt_id,
      selected_option_id |-> NULL, is_correct |-> TRUE]}
OutOfRangeAnswers(id, attempt_id, question_id) ==
    {[id |-> id, question_id |-> question_id, attempt_id |-> attempt_id,
      selected_option_id |-> NULL, is_correct |-> FALSE]}

\* Line 118: (correct_count / len(questions)) * 100, for len(questions) # 0.
\* (Faulty variant: integer division.)
ScoreFloorDiv(correct_count, n) == <<(correct_count \div n) * 100, 1>>
Score(correct_count, n) == <<correct_count * 100, n>>

\* Line 77: the id the INSERT of the flush gives the new attempt.  (Faulty
\* variant: the first attempt's id is used again.)
FirstAttemptId(next) == 1
NewAttemptId(next) == next

\* Line 85, db.flush(): the rows other sessions can read after it (none:
\* the INSERT stays inside the open transaction).  (Faulty variant: a commit
\* in place of the flush.)
FlushCommits(rows) == rows
FlushVisible(rows) == {}

\* Leaving "async with db.begin()" by an exception rolls the transaction
\* back: the pending rows that reach the tables.
RolledBack(rows) == {}

\* ------------------------------------------------------------- the catalog
\* Quiz 1 is the two-question quiz (options wrong,correct,wrong,wrong and
\* correct,wrong,wrong,wrong; option ids 1-4 and 5-8); quiz 2 has no
\* question; quiz 3 has one question that has no option, or the options
\* wrong,wrong, or the options wrong,correct,correct.
OptionFlags == {<<>>, <<FALSE, FALSE>>, <<FALSE, TRUE, TRUE>>}

Quiz3Options(flags) ==
    {[id |-> 8 + k, question_id |-> 3, is_correct |-> flags[k]] :
        k \in 1..Len(flags)}

ScenarioOptions ==
    {[id |-> k, question_id |-> 1, is_correct |-> (k = 2)] : k \in 1..4}
    \cup {[id |-> 4 + k, question_id |-> 2, is_correct |-> (k = 1)] : k \in 1..4}

NoCall == [questions |-> <<>>, quiz_id |-> NULL, user_id |-> NULL,
           attempt_id |-> NULL, op |-> "none", time_spent_seconds |-> NULL,
           selected_options |-> <<>>, current_user |-> NULL, method |-> "",
           path |-> <<>>, authorization |-> <<>>, form |-> <<>>]
NoLoc == [questions |-> <<>>, i |-> 0, correct_count |-> 0,
          current_user |-> NULL, quiz |-> {}, attempt |-> {},
          attempts |-> <<>>, answers |-> <<>>, state_user |-> NULL]
NoTx == [attempts |-> {}, answers |-> {}]
NoResp == [status |-> 0, error |-> "", body |-> <<>>]

InitWith(flag_choices) ==
    /\ users = {1, 2}
    /\ quizzes = {[id |-> 1, title |-> "Scenario", creator_id |-> 1],
                  [id |-> 2, title |-> "Empty", creator_id |-> 1],
                  [id |-> 3, title |-> "Single", creator_id |-> 1]}
    /\ questions = {[id |-> 1, quiz_id |-> 1, question_text |-> "Q1"],
                    [id |-> 2, quiz_id |-> 1, question_text |-> "Q2"],
                    [id |-> 3, quiz_id |-> 3, question_text |-> "Q3"]}
    /\ \E flags \in flag_choices :
          question_options = ScenarioOptions \cup Quiz3Options(flags)
    /\ quiz_attempts = {}
    /\ question_answers = {}
    /\ next_attempt_id = 1
    /\ next_answer_id = 1
    /\ next_quiz_id = 4
    /\ next_question_id = 4
    /\ next_option_id = 12
    /\ tokens = {}
    /\ now = 0
    /\ pc = [p \in Procs |-> "idle"]
    /\ call = [p \in Procs |-> NoCall]
    /\ loc = [p \in Procs |-> NoLoc]
    /\ tx = [p \in Procs |-> NoTx]
    /\ resp = [p \in Procs |-> NoResp]
    /\ wrote = [p \in Procs |-> FALSE]

Init == InitWith({<<>>, <<FALSE, TRUE, TRUE>>})

\* ------------------------------------------------------------ request ends
\* The step changes the committed tables.
Changed == quiz_attempts' # quiz_attempts \/ question_answers' # question_answers

\* The handler returns: the response is sent, the session is closed.
Return(p, status, body) ==
    /\ pc' = [pc EXCEPT ![p] = "done"]
    /\ resp' = [resp EXCEPT ![p] = [status |-> status, error |-> "", body |-> body]]

\* An exception leaves the handler.  While the transaction of
\* "async with db.begin()" is open its pending rows are rolled back.
Raise(p, status, error) ==
    /\ pc' = [pc EXCEPT ![p] = "done"]
    /\ resp' = [resp EXCEPT ![p] = [status |-> status, error |-> error, body |-> <<>>]]
    /\ tx' = [tx EXCEPT ![p] = NoTx]
    /\ quiz_attempts' = quiz_attempts \cup RolledBack(tx[p].attempts)
    /\ question_answers' = question_answers \cup RolledBack(tx[p].answers)
    /\ wrote' = [wrote EXCEPT ![p] = @ \/ Changed]

\* get_db: a request gets a session of its own.
Arrive(p, c, first) ==
    /\ pc[p] = "idle"
    /\ pc' = [pc EXCEPT ![p] = first]
    /\ call' = [call EXCEPT ![p] = c]
    /\ loc' = [loc EXCEPT ![p] = NoLoc]
    /\ resp' = [resp EXCEPT ![p] = NoResp]
    /\ wrote' = [wrote EXCEPT ![p] = FALSE]
    /\ UNCHANGED <<catalog, catalog_seqs, tokens, store, seqs, now, tx>>

\* get_db: the response is out and the session is closed.
session_close(p) ==
    /\ pc[p] = "done"
    /\ pc' = [pc EXCEPT ![p] = "idle"]
    /\ call' = [call EXCEPT ![p] = NoCall]
    /\ loc' = [loc EXCEPT ![p] = NoLoc]
    /\ resp' = [resp EXCEPT ![p] = NoResp]
    /\ wrote' = [wrote EXCEPT ![p] = FALSE]
    /\ UNCHANGED <<catalog, catalog_seqs, tokens, store, seqs, now, tx>>

\* datetime.utcnow(): time passes between two readings of the clock.
tick ==
    /\ now < MaxClock
    /\ now' = now + 1
    /\ UNCHANGED <<catalog, catalog_seqs, tokens, store, seqs, pc, call, loc, tx, resp, wrote>>

\* ------------------------------------------------- submit_quiz_attempt
\* The lists of at most MaxLetters entries drawn from letters.
LetterLists(letters) == UNION {[1..n -> letters] : n \in 0..MaxLetters}

\* POST /quiz-attempts/submit arrives, its selected_options such a list or
\* one of lists.
submit_call(p, quiz_ids, user_ids, times, letters, lists) ==
    /\ next_attempt_id <= MaxAttempts
    /\ \E quiz_id \in quiz_ids, user_id \in user_ids, t \in times,
          selected_options \in LetterLists(letters) \cup lists :
        Arrive(p, [NoCall EXCEPT !.op = "submit",
                                 !.quiz_id = quiz_id,
                                 !.user_id = user_id,
                                 !.time_spent_seconds = t,
                                 !.selected_options = selected_options], "submit_quiz")

\* Lines 59-64.
submit_query_quiz(p) ==
    /\ pc[p] = "submit_quiz"
    /\ LET quiz == FindQuiz(call[p].quiz_id) IN
       IF quiz = {}
       THEN /\ Raise(p, HTTP_NOT_FOUND, "Quiz not found")
            /\ UNCHANGED <<catalog, catalog_seqs, tokens, seqs, now, call, loc>>
       ELSE /\ pc' = [pc EXCEPT ![p] = "submit_questions"]
            /\ loc' = [loc EXCEPT ![p].quiz = quiz]
            /\ UNCHANGED <<catalog, catalog_seqs, tokens, store, seqs, now, call, tx, resp, wrote>>

\* Lines 66-74.
submit_query_questions(p) ==
    /\ pc[p] = "submit_questions"
    /\ LET qs == SubmitQuestions(call[p].quiz_id) IN
       IF CountMismatch(Len(qs), Len(call[p].selected_options))
       THEN /\ Raise(p, HTTP_BAD_REQUEST, "count mismatch")
            /\ UNCHANGED <<catalog, catalog_seqs, tokens, seqs, now, call, loc>>
       ELSE /\ pc' = [pc EXCEPT ![p] = "submit_flush"]
            /\ loc' = [loc EXCEPT ![p].questions = qs]
            /\ UNCHANGED <<catalog, catalog_seqs, tokens, store, seqs, now, call, tx, resp, wrote>>

\* Lines 76-87: the attempt is built (both readings of utcnow fall in the
\* same clock period), added and flushed: the INSERT gives it its id inside
\* the open transaction.
submit_flush(p) ==
    /\ pc[p] = "submit_flush"
    /\ next_attempt_id <= MaxAttempts
    /\ LET attempt == [id |-> NewAttemptId(next_attempt_id),
                       quiz_id |-> call[p].quiz_id,
                       user_id |-> call[p].user_id,
                       time_spent_seconds |-> call[p].time_spent_seconds,
                       started_at |-> now,
                       completed_at |-> now,
                       score |-> None]
       IN  /\ tx' = [tx EXCEPT ![p].attempts = {attempt}]
           /\ loc' = [loc EXCEPT ![p].attempt = {attempt},
                                 ![p].i = 1,
                                 ![p].correct_count = 0]
           /\ quiz_attempts' = quiz_attempts \cup FlushVisible({attempt})
           /\ wrote' = [wrote EXCEPT ![p] = @ \/ quiz_attempts' # quiz_attempts]
    /\ next_attempt_id' = next_attempt_id + 1
    /\ pc' = [pc EXCEPT ![p] =
                IF Len(loc[p].questions) = 0 THEN "submit_commit" ELSE "submit_grade"]
    /\ UNCHANGED <<catalog, catalog_seqs, tokens, question_answers, next_answer_id, now, call, resp>>

\* Lines 89-116: one iteration of the grading loop.
submit_grade(p) ==
    /\ pc[p] = "submit_grade"
    /\ LET i == loc[p].i
           question == loc[p].questions[i]
           attempt == CHOOSE a \in loc[p].attempt : TRUE
       IN
       IF i > Len(call[p].selected_options)
       THEN /\ Raise(p, HTTP_SERVER_ERROR, "IndexError")
            /\ UNCHANGED <<catalog, catalog_seqs, tokens, seqs, now, call, loc>>
       ELSE
       LET letter == call[p].selected_options[i]
           selected_letter == upper(letter)
       IN
       IF ~OrdDefined(selected_letter)
       THEN /\ Raise(p, HTTP_SERVER_ERROR, "TypeError")
            /\ UNCHANGED <<catalog, catalog_seqs, tokens, seqs, now, call, loc>>
       ELSE
       LET option_index == OptionIndex(letter)
           options == SubmitOptions(question.id)
       IN
       IF InRange(option_index, Len(options)) /\ ~PyIndexDefined(options, option_index)
       THEN /\ Raise(p, HTTP_SERVER_ERROR, "IndexError")
            /\ UNCHANGED <<catalog, catalog_seqs, tokens, seqs, now, call, loc>>
       ELSE
       LET in_range == InRange(option_index, Len(options))
           rows == IF in_range
                   THEN InRangeAnswers(next_answer_id, attempt.id, question.id,
                                       PyIndex(options, option_index))
                   ELSE OutOfRangeAnswers(next_answer_id, attempt.id, question.id)
           is_correct == in_range /\ PyIndex(options, option_index).is_correct
       IN
           /\ tx' = [tx EXCEPT ![p].answers = @ \cup rows]
           /\ next_answer_id' = next_answer_id + Cardinality(rows)
           /\ loc' = [loc EXCEPT ![p].i = i + 1,
                                 ![p].correct_count = IF is_correct THEN @ + 1 ELSE @]
           /\ pc' = [pc EXCEPT ![p] =
                       IF i = Len(loc[p].questions) THEN "submit_commit" ELSE "submit_grade"]
           /\ UNCHANGED <<catalog, catalog_seqs, tokens, store, next_attempt_id, now, call, resp, wrote>>

\* Lines 118-121: the score is computed and set on the attempt; commit makes
\* the attempt and its answers visible together.
submit_commit(p) ==
    /\ pc[p] = "submit_commit"
    /\ LET n == Len(loc[p].questions) IN
       IF n = 0
       THEN /\ Raise(p, HTTP_SERVER_ERROR, "ZeroDivisionError")
            /\ UNCHANGED <<catalog, catalog_seqs, tokens, seqs, now, call, loc>>
       ELSE
       LET score == Score(loc[p].correct_count, n)
           scored == {[a EXCEPT !.score = score] : a \in tx[p].attempts}
       IN
           /\ quiz_attempts' = quiz_attempts \cup scored
           /\ question_answers' = question_answers \cup tx[p].answers
           /\ wrote' = [wrote EXCEPT ![p] = @ \/ Changed]
           /\ tx' = [tx EXCEPT ![p] = NoTx]
           /\ loc' = [loc EXCEPT ![p].attempt = scored]
           /\ pc' = [pc EXCEPT ![p] = "submit_refresh"]
           /\ UNCHANGED <<catalog, catalog_seqs, tokens, seqs, now, call, resp>>

\* Lines 122-130: the attempt is re-read and the result returned.
submit_refresh(p) ==
    /\ pc[p] = "submit_refresh"
    /\ LET attempt == CHOOSE a \in loc[p].attempt : TRUE IN
       Return(p, HTTP_OK,
              [attempt_id |-> attempt.id,
               time_spent_seconds |-> call[p].time_spent_seconds,
               score |-> attempt.score,
               correct_answers |-> loc[p].correct_count,
               total_questions |-> Len(loc[p].questions)])
    /\ UNCHANGED <<catalog, catalog_seqs, tokens, store, seqs, now, call, loc, tx, wrote>>

\* ------------------------------------------------- start_quiz_attempt
\* POST /quiz-attempts/start arrives.
start_call(p, quiz_ids, user_ids) ==
    /\ next_attempt_id <= MaxAttempts
    /\ \E quiz_id \in quiz_ids, user_id \in user_ids :
        Arrive(p, [NoCall EXCEPT !.op = "start",
                                 !.quiz_id = quiz_id,
                                 !.user_id = user_id], "start_check")

\* Lines 19-29.
start_check(p) ==
    /\ pc[p] = "start_check"
    /\ IF FindQuiz(call[p].quiz_id) = {}
       THEN /\ Raise(p, HTTP_NOT_FOUND, "Quiz not found")
            /\ UNCHANGED <<catalog, catalog_seqs, tokens, seqs, now, call, loc>>
       ELSE IF FindUser(call[p].user_id) = {}
       THEN /\ Raise(p, HTTP_NOT_FOUND, "User not found")
            /\ UNCHANGED <<catalog, catalog_seqs, tokens, seqs, now, call, loc>>
       ELSE /\ pc' = [pc EXCEPT ![p] = "start_commit"]
            /\ loc' = [loc EXCEPT ![p].quiz = FindQuiz(call[p].quiz_id)]
            /\ UNCHANGED <<catalog, catalog_seqs, tokens, store, seqs, now, call, tx, resp, wrote>>

\* Lines 31-39: the attempt is added and committed.
start_commit(p) ==
    /\ pc[p] = "start_commit"
    /\ next_attempt_id <= MaxAttempts
    /\ LET attempt == [id |-> NewAttemptId(next_attempt_id),
                       quiz_id |-> call[p].quiz_id,
                       user_id |-> call[p].user_id,
                       time_spent_seconds |-> NULL,
                       started_at |-> now,
                       completed_at |-> NULL,
                       score |-> None]
       IN  /\ quiz_attempts' = quiz_attempts \cup {attempt}
           /\ wrote' = [wrote EXCEPT ![p] = @ \/ quiz_attempts' # quiz_attempts]
           /\ loc' = [loc EXCEPT ![p].attempt = {attempt}]
    /\ next_attempt_id' = next_attempt_id + 1
    /\ pc' = [pc EXCEPT ![p] = "start_refresh"]
    /\ UNCHANGED <<catalog, catalog_seqs, tokens, question_answers, next_answer_id, now, call, tx, resp>>

\* Lines 40-45.
start_refresh(p) ==
    /\ pc[p] = "start_refresh"
    /\ LET attempt == CHOOSE a \in loc[p].attempt : TRUE IN
       Return(p, HTTP_OK, [attempt_id |-> attempt.id, started_at |-> attempt.started_at])
    /\ UNCHANGED <<catalog, catalog_seqs, tokens, store, seqs, now, call, loc, tx, wrote>>

\* ---------------------------------------------- get_user_quiz_attempts
\* The sequences that list every row of S once.
Orderings(S) ==
    {s \in [1..Cardinality(S) -> S] : \A i, j \in DOMAIN s : i # j => s[i] # s[j]}

\* Line 141, order_by(started_at.desc()): rows of equal started_at come in
\* any order.  (Faulty variant: ascending order.)
OrderByStartedAtAsc(S) ==
    {s \in Orderings(S) :
        \A i, j \in DOMAIN s : i < j => s[i].started_at <= s[j].started_at}
OrderByStartedAtDesc(S) ==
    {s \in Orderings(S) :
        \A i, j \in DOMAIN s : i < j => s[i].started_at >= s[j].started_at}

\* Lines 146-157: the summary of one attempt.
QuizTitle(quiz) == IF quiz = {} THEN "Unknown" ELSE (CHOOSE q \in quiz : TRUE).title

Summary(attempt) ==
    [quiz_id |-> attempt.quiz_id,
     attempt_id |-> attempt.id,
     time_spent_seconds |-> attempt.time_spent_seconds,
     started_at |-> attempt.started_at,
     completed_at |-> attempt.completed_at,
     score |-> attempt.score,
     quiz_title |-> QuizTitle(FindQuiz(attempt.quiz_id))]

\* GET /quiz-attempts/user/{user_id} arrives.
list_call(p, user_ids) ==
    \E user_id \in user_ids :
        Arrive(p, [NoCall EXCEPT !.op = "list",
                                 !.user_id = user_id], "list_query")

\* Lines 140-142.
list_query(p) ==
    /\ pc[p] = "list_query"
    /\ \E attempts \in OrderByStartedAtDesc(
                           {a \in quiz_attempts : a.user_id = call[p].user_id}) :
          loc' = [loc EXCEPT ![p].attempts = attempts]
    /\ pc' = [pc EXCEPT ![p] = "list_build"]
    /\ UNCHANGED <<catalog, catalog_seqs, tokens, store, seqs, now, call, tx, resp, wrote>>

\* Lines 144-159.
list_build(p) ==
    /\ pc[p] = "list_build"
    /\ Return(p, HTTP_OK,
              [k \in DOMAIN loc[p].attempts |-> Summary(loc[p].attempts[k])])
    /\ UNCHANGED <<catalog, catalog_seqs, tokens, store, seqs, now, call, loc, tx, wrote>>

\* -------------------------------------------- get_quiz_attempt_details
\* Line 190: the question's options in ascending id order.  (Faulty
\* variant: descending order.)
DetailOptionsDesc(question_id) ==
    OrderByIdDesc({o \in question_options : o.question_id = question_id})
DetailOptions(question_id) ==
    OrderById({o \in question_options : o.question_id = question_id})

\* "if answer.selected_option_id:" is false for None and for 0.
Truthy(n) == n # NULL /\ n # 0

\* Lines 193-199: the letter of the first option whose id is the selected one.
\* (Faulty variant: the selected option is never found among the options.)
SelectedLetterNone(options, selected_option_id) == None
SelectedLetter(options, selected_option_id) ==
    LET hits == {i \in DOMAIN options : options[i].id = selected_option_id} IN
    IF Truthy(selected_option_id) /\ hits # {}
    THEN chr(OrdA + (CHOOSE i \in hits : \A j \in hits : i <= j) - 1)
    ELSE None

\* Lines 201-206: the letter of the first correct option.  (Faulty variant:
\* the scan does not stop at the first one.)
CorrectLetterLast(options) ==
    LET hits == {i \in DOMAIN options : options[i].is_correct} IN
    IF hits # {}
    THEN chr(OrdA + (CHOOSE i \in hits : \A j \in hits : i >= j) - 1)
    ELSE None
CorrectLetter(options) ==
    LET hits == {i \in DOMAIN options : options[i].is_correct} IN
    IF hits # {}
    THEN chr(OrdA + (CHOOSE i \in hits : \A j \in hits : i <= j) - 1)
    ELSE None

FindQuestion(question_id) == {q \in questions : q.id = question_id}

\* Lines 185-219: the entry of one answer. question.id is read at line 212
\* whether or not the question was found.
EntryDefined(answer) == FindQuestion(answer.question_id) # {}

Entry(answer) ==
    LET question == CHOOSE q \in FindQuestion(answer.question_id) : TRUE
        options == DetailOptions(answer.question_id)
    IN  [question_id |-> question.id,
         selected_option_id |-> answer.selected_option_id,
         is_correct |-> answer.is_correct,
         question_text |-> question.question_text,
         options |-> [k \in DOMAIN options |->
                        [id |-> options[k].id, is_correct |-> options[k].is_correct]],
         selected_option_letter |-> SelectedLetter(options, answer.selected_option_id),
         correct_option_letter |-> CorrectLetter(options)]

\* GET /quiz-attempts/{attempt_id} arrives.
details_call(p, attempt_ids) ==
    \E attempt_id \in attempt_ids :
        Arrive(p, [NoCall EXCEPT !.op = "details",
                                 !.attempt_id = attempt_id], "details_attempt")

\* Lines 170-174.
details_query_attempt(p) ==
    /\ pc[p] = "details_attempt"
    /\ LET found == {a \in quiz_attempts : a.id = call[p].attempt_id} IN
       IF found = {}
       THEN /\ Raise(p, HTTP_NOT_FOUND, "Quiz attempt not found")
            /\ UNCHANGED <<catalog, catalog_seqs, tokens, seqs, now, call, loc>>
       ELSE /\ \E attempt \in found : loc' = [loc EXCEPT ![p].attempt = {attempt}]
            /\ pc' = [pc EXCEPT ![p] = "details_answers"]
            /\ UNCHANGED <<catalog, catalog_seqs, tokens, store, seqs, now, call, tx, resp, wrote>>

\* Lines 176-182: the quiz, and the attempt's answers in the order the store
\* returns them (the query has no order_by).
details_query_answers(p) ==
    /\ pc[p] = "details_answers"
    /\ LET attempt == CHOOSE a \in loc[p].attempt : TRUE IN
       \E answers \in Orderings({a \in question_answers : a.attempt_id = attempt.id}) :
          loc' = [loc EXCEPT ![p].quiz = FindQuiz(attempt.quiz_id),
                             ![p].answers = answers]
    /\ pc' = [pc EXCEPT ![p] = "details_build"]
    /\ UNCHANGED <<catalog, catalog_seqs, tokens, store, seqs, now, call, tx, resp, wrote>>

\* Lines 184-231.
details_build(p) ==
    /\ pc[p] = "details_build"
    /\ LET attempt == CHOOSE a \in loc[p].attempt : TRUE
           answers == loc[p].answers
       IN
       IF \E k \in DOMAIN answers : ~EntryDefined(answers[k])
       THEN /\ Raise(p, HTTP_SERVER_ERROR, "AttributeError")
            /\ UNCHANGED <<catalog, catalog_seqs, tokens, seqs, now, call, loc>>
       ELSE /\ Return(p, HTTP_OK,
                      [quiz_id |-> attempt.quiz_id,
                       user_id |-> attempt.user_id,
                       attempt_id |-> attempt.id,
                       time_spent_seconds |-> attempt.time_spent_seconds,
                       answers |-> [k \in DOMAIN answers |-> Entry(answers[k])],
                       started_at |-> attempt.started_at,
                       completed_at |-> attempt.completed_at,
                       score |-> attempt.score,
                       quiz_title |-> QuizTitle(loc[p].quiz)])
            /\ UNCHANGED <<catalog, catalog_seqs, tokens, store, seqs, now, call, loc, tx, wrote>>

\* ------------------------------------------------ delete_quiz_endpoint
\* cascade="all, delete-orphan" of Quiz.questions: the questions deleted
\* with the quiz.
CascadeQuestions(quiz_id) == {q \in questions : q.quiz_id = quiz_id}

\* cascade="all, delete-orphan" of Question.options: the options deleted
\* with the questions.  (Faulty variant: the options are left behind.)
CascadeOptionsNone(deleted) == {}
CascadeOptions(deleted) ==
    {o \in question_options : \E q \in deleted : o.question_id = q.id}

\* DELETE /quiz/{quiz_id} arrives; user_id is current_user.id.
delete_call(p, quiz_ids, user_ids) ==
    \E quiz_id \in quiz_ids, user_id \in user_ids :
        Arrive(p, [NoCall EXCEPT !.op = "delete",
                                 !.quiz_id = quiz_id,
                                 !.user_id = user_id], "delete_quiz")

\* Lines 139-153.  The handler awaits nothing: it runs in one step.  The
\* attempts and answers that refer to the quiz, its questions and its
\* options are no part of the cascade and stay.
delete_quiz_endpoint(p) ==
    /\ pc[p] = "delete_quiz"
    /\ LET quiz == FindQuiz(call[p].quiz_id) IN
       IF quiz = {}
       THEN /\ Raise(p, HTTP_NOT_FOUND, "Quiz not found")
            /\ UNCHANGED <<catalog, catalog_seqs, tokens, seqs, now, call, loc>>
       ELSE IF call[p].user_id # (CHOOSE q \in quiz : TRUE).creator_id
       THEN /\ Raise(p, HTTP_FORBIDDEN, "Not authorized to delete this quiz")
            /\ UNCHANGED <<catalog, catalog_seqs, tokens, seqs, now, call, loc>>
       ELSE LET deleted == CascadeQuestions(call[p].quiz_id) IN
            /\ quizzes' = quizzes \ quiz
            /\ questions' = questions \ deleted
            /\ question_options' = question_options \ CascadeOptions(deleted)
            /\ Return(p, HTTP_OK, [id |-> call[p].quiz_id,
                                   message |-> "Quiz deleted successfully"])
            /\ UNCHANGED <<users, catalog_seqs, tokens, store, seqs, now, call, loc, tx, wrote>>

\* --------------------------------------------------- save_quiz_endpoint
\* A q_data dict is a record: a key the dict lacks is a field it lacks.
HasKey(q_data, key) == key \in DOMAIN q_data

\* Line 110: q_data["question"] is read before the question is added.
KeyErrorBeforeFlush(q_data) == ~HasKey(q_data, "question")

\* Lines 116-117: q_data["options"], and q_data["correct_answer"] once per
\* option, are read after the question is flushed.
KeyErrorAfterFlush(q_data) ==
    /\ HasKey(q_data, "question")
    /\ \/ ~HasKey(q_data, "options")
       \/ Len(q_data.options) > 0 /\ ~HasKey(q_data, "correct_answer")

\* The position of the first q_data that raises KeyError, 0 when none does.
FirstKeyError(qs) ==
    LET bad == {k \in DOMAIN qs :
                   KeyErrorBeforeFlush(qs[k]) \/ KeyErrorAfterFlush(qs[k])}
    IN  IF bad = {} THEN 0 ELSE CHOOSE k \in bad : \A j \in bad : k <= j

\* The number of options of the first k questions.
RECURSIVE OptionCount(_, _)
OptionCount(qs, k) ==
    IF k = 0 THEN 0 ELSE Len(qs[k].options) + OptionCount(qs, k - 1)

\* Lines 97-103: the quiz row.
NewQuiz(id, creator_id) == {[id |-> id, title |-> "Saved", creator_id |-> creator_id]}

\* Lines 108-113: the question rows, their ids in the order of the flushes.
NewQuestions(quiz_id, first_id, qs) ==
    {[id |-> first_id + k - 1, quiz_id |-> quiz_id,
      question_text |-> qs[k].question] : k \in DOMAIN qs}

\* Lines 116-123: the option rows, their ids in the order they were added.
NewOptions(first_question_id, first_id, qs) ==
    UNION {{[id |-> first_id + OptionCount(qs, k - 1) + j - 1,
             question_id |-> first_question_id + k - 1,
             is_correct |-> (qs[k].options[j] = qs[k].correct_answer)] :
                j \in DOMAIN qs[k].options} : k \in DOMAIN qs}

\* The questions flushed when the KeyError of position f is raised, and the
\* options flushed with them (the options of a question are flushed by the
\* flush of the next question).
FlushedQuestions(qs, f) == IF KeyErrorBeforeFlush(qs[f]) THEN f - 1 ELSE f
FlushedOptions(qs, f) ==
    IF FlushedQuestions(qs, f) = 0 THEN 0
    ELSE OptionCount(qs, FlushedQuestions(qs, f) - 1)

\* Lines 128-131, "except Exception": whatever the try block raised, the
\* HTTPException of lines 89 and 94 included, is answered with status 500.
SaveErrorStatus(raised) == HTTP_SERVER_ERROR

\* POST /save-quiz/ arrives; current_user is the authenticated user.
save_call(p, user_ids, current_users, question_lists) ==
    /\ next_quiz_id <= MaxQuizzes
    /\ \E user_id \in user_ids, current_user \in current_users,
          qs \in question_lists :
        Arrive(p, [NoCall EXCEPT !.op = "save",
                                 !.user_id = user_id,
                                 !.current_user = current_user,
                                 !.questions = qs], "save_quiz")

\* Lines 86-131.  The handler awaits nothing: it runs in one step.  The
\* flushes take ids from the sequences; db.rollback() discards the rows
\* they inserted, not the ids.
save_quiz_endpoint(p) ==
    /\ pc[p] = "save_quiz"
    /\ LET user_id == call[p].user_id
           qs == call[p].questions
           f == FirstKeyError(qs)
       IN
       IF call[p].current_user # user_id
       THEN /\ Raise(p, SaveErrorStatus(HTTP_FORBIDDEN),
                     "Not authorized to create quiz for this user")
            /\ UNCHANGED <<catalog, catalog_seqs, tokens, seqs, now, call, loc>>
       ELSE IF FindUser(user_id) = {}
       THEN /\ Raise(p, SaveErrorStatus(HTTP_NOT_FOUND), "User not found")
            /\ UNCHANGED <<catalog, catalog_seqs, tokens, seqs, now, call, loc>>
       ELSE IF f # 0
       THEN /\ Raise(p, SaveErrorStatus(HTTP_SERVER_ERROR), "KeyError")
            /\ next_quiz_id' = next_quiz_id + 1
            /\ next_question_id' = next_question_id + FlushedQuestions(qs, f)
            /\ next_option_id' = next_option_id + FlushedOptions(qs, f)
            /\ UNCHANGED <<catalog, tokens, seqs, now, call, loc>>
       ELSE /\ quizzes' = quizzes \cup NewQuiz(next_quiz_id, user_id)
            /\ questions' = questions
                   \cup NewQuestions(next_quiz_id, next_question_id, qs)
            /\ question_options' = question_options
                   \cup NewOptions(next_question_id, next_option_id, qs)
            /\ next_quiz_id' = next_quiz_id + 1
            /\ next_question_id' = next_question_id + Len(qs)
            /\ next_option_id' = next_option_id + OptionCount(qs, Len(qs))
            /\ Return(p, HTTP_OK, [quiz_id |-> next_quiz_id])
            /\ UNCHANGED <<users, tokens, store, seqs, now, call, loc, tx, wrote>>
\* ------------------------------------------------------- users and tokens
\* The rows of table users behind the ids of `users` (no modelled handler
\* changes them).  signup keeps usernames distinct and e-mails distinct,
\* and nothing keeps a username from being another user's e-mail
\* (schemas/auth.py: username is any string of 3 to 50 characters).
\* hashed_password is what get_password_hash made of the password.
get_password_hash(password) == <<"bcrypt", password>>
verify_password(plain_password, hashed_password) ==
    hashed_password = get_password_hash(plain_password)

NoUser == [id |-> NULL, hashed_password |-> <<>>, username |-> "", email |-> "",
           is_active |-> FALSE]
UserRow(id) ==
    IF id = 1
    THEN [NoUser EXCEPT !.id = 1, !.username = "alice", !.email = "alice@x.io",
                        !.hashed_password = get_password_hash("password1"),
                        !.is_active = TRUE]
    ELSE [NoUser EXCEPT !.id = 2, !.username = "alice@x.io", !.email = "bob@x.io",
                        !.hashed_password = get_password_hash("password2"),
                        !.is_active = TRUE]
UserRows == {UserRow(id) : id \in users}

\* db.query(User).filter(...).first(): {} is None.
UserByEmail(email) == {u \in UserRows : u.email = email}
UserByUsername(username) == {u \in UserRows : u.username = username}
UserById(user_id) == {u \in UserRows : u.id = user_id}

\* authenticate_user: the user with that e-mail, or else with that
\* username, when the password is theirs; {} is False.
authenticate_user(email, password) ==
    LET user == IF UserByEmail(email) # {} THEN UserByEmail(email)
                ELSE UserByUsername(email)
    IN  {u \in user : verify_password(password, u.hashed_password)}

\* A JWT: its payload (sub, user_id, exp) and the key it is signed with.
\* user_id is NULL in a payload without that entry.
SECRET_KEY == "JWT_SECRET_KEY"
NoToken == [user_id |-> NULL, key |-> "", sub |-> "", exp |-> 0]
\* ACCESS_TOKEN_EXPIRE_MINUTES, 24 hours, in readings of the clock: the
\* reading after the token is issued is taken before or after they end.
ACCESS_TOKEN_EXPIRE == {0, 1}
\* create_access_token: exp = utcnow() + expires_delta, signed with SECRET_KEY.
create_access_token(sub, user_id, expires_delta) ==
    [NoToken EXCEPT !.sub = sub, !.user_id = user_id,
                    !.exp = now + expires_delta, !.key = SECRET_KEY]
\* jwt.decode(token, SECRET_KEY, algorithms=[ALGORITHM]) returns the payload:
\* the signature is SECRET_KEY's and exp has not passed (JWTError otherwise).
Decodes(token) == token.key = SECRET_KEY /\ now <= token.exp

\* path.startswith("/api"), the path as the list of its segments.
UnderApi(path) == path # <<>> /\ path[1] = "api"
\* scheme.lower() of the schemes clients send.
SchemeLower(scheme) == IF scheme = "Bearer" THEN "bearer" ELSE scheme
\* The routes of the application a request is matched against: the login
\* and profile routes of api/routes/auth.py under /api/auth, the login
\* route of auth/routes.py under /auth; any other request is not found.
ApiLogin == <<"api", "auth", "login">>
ApiMe == <<"api", "auth", "me">>
AuthLogin == <<"auth", "login">>
Route(method, path) ==
    IF method = "POST" /\ path = ApiLogin THEN "login"
    ELSE IF method = "GET" /\ path = ApiMe THEN "get_current_user"
    ELSE IF method = "POST" /\ path = AuthLogin THEN "routes_login"
    ELSE "not_found"

\* A request arrives with its method, path, form fields and Authorization
\* header: no header, or "<scheme> <token>" with no token, with a token
\* the application has handed out, or with one signed by somebody else.
api_call(p, requests, schemes, forged) ==
    \E r \in requests :
        /\ r[3] # <<>> => Cardinality(tokens) < MaxTokens
        /\ \E a \in {<<>>} \cup
                    {<<s, tk>> : s \in schemes,
                                 tk \in {<<>>} \cup {<<t>> : t \in tokens \cup forged}} :
              Arrive(p, [NoCall EXCEPT !.op = "api", !.method = r[1], !.path = r[2],
                                       !.form = r[3], !.authorization = a],
                     "jwt_middleware")

\* call_next(request): the request goes on to its route.
call_next(p, user) ==
    /\ pc' = [pc EXCEPT ![p] = Route(call[p].method, call[p].path)]
    /\ loc' = [loc EXCEPT ![p].state_user = user]
    /\ UNCHANGED <<resp, tx, store, wrote>>

\* The middleware answers 401 itself.
Unauthorized(p, detail) ==
    /\ Raise(p, HTTP_UNAUTHORIZED, detail)
    /\ UNCHANGED loc

\* jwt_middleware, lines 10-85.
jwt_middleware(p) ==
    /\ pc[p] = "jwt_middleware"
    /\ LET authorization == call[p].authorization
           scheme == authorization[1]
           token == authorization[2]
           username == token[1].sub
           user == UserByUsername(username)
       IN  IF call[p].method = "OPTIONS"
           THEN /\ Return(p, HTTP_OK, [message |-> "Preflight OK"])
                /\ UNCHANGED <<loc, tx, store, wrote>>
           ELSE IF ~UnderApi(call[p].path) THEN call_next(p, NULL)
           ELSE IF authorization = <<>>
           THEN Unauthorized(p, "Authorization header missing")
           ELSE IF SchemeLower(scheme) # "bearer"
           THEN Unauthorized(p, "Invalid authentication scheme")
           ELSE IF token = <<>> THEN Unauthorized(p, "Token missing")
           ELSE IF ~Decodes(token[1]) THEN Unauthorized(p, "Invalid token")
           ELSE IF username = "" THEN Unauthorized(p, "Invalid token payload")
           ELSE IF user = {} THEN Unauthorized(p, "User not found")
           ELSE call_next(p, (CHOOSE u \in user : TRUE).id)
    /\ UNCHANGED <<catalog, catalog_seqs, tokens, seqs, now, call>>

\* The router has no route for the request.
not_found(p) ==
    /\ pc[p] = "not_found"
    /\ Raise(p, HTTP_NOT_FOUND, "Not Found")
    /\ UNCHANGED <<catalog, catalog_seqs, tokens, seqs, now, call, loc>>

\* The token of a login is handed to the client.
NoTokenBody == [user |-> NULL, access_token |-> <<>>, token_type |-> "bearer"]
IssueToken(p, token, user_id) ==
    /\ tokens' = tokens \cup {token}
    /\ Return(p, HTTP_OK, [NoTokenBody EXCEPT !.access_token = <<token>>,
                                              !.user = user_id])
    /\ UNCHANGED <<loc, tx, store, wrote>>

\* login of api/routes/auth.py, lines 88-129: sub is the user's e-mail.
login(p) ==
    /\ pc[p] = "login"
    /\ LET user == authenticate_user(call[p].form[1], call[p].form[2])
       IN  IF user = {}
           THEN /\ Raise(p, HTTP_UNAUTHORIZED, "Invalid credentials")
                /\ UNCHANGED <<tokens, loc>>
           ELSE \E expires_delta \in ACCESS_TOKEN_EXPIRE :
                   LET u == CHOOSE u \in user : TRUE
                   IN  IssueToken(p, create_access_token(u.email, u.id, expires_delta),
                                  u.id)
    /\ UNCHANGED <<catalog, catalog_seqs, seqs, now, call>>

\* login of auth/routes.py, lines 38-54: sub is the username, and the
\* payload has no user_id.  (authenticate_user and create_access_token come
\* from auth.utils; they are taken to be those of services/auth_service.py,
\* with the same key.)
routes_login(p) ==
    /\ pc[p] = "routes_login"
    /\ LET user == authenticate_user(call[p].form[1], call[p].form[2])
       IN  IF user = {}
           THEN /\ Raise(p, HTTP_UNAUTHORIZED, "Incorrect username or password")
                /\ UNCHANGED <<tokens, loc>>
           ELSE \E expires_delta \in ACCESS_TOKEN_EXPIRE :
                   LET u == CHOOSE u \in user : TRUE
                   IN  IssueToken(p, create_access_token(u.username, NULL, expires_delta),
                                  NULL)
    /\ UNCHANGED <<catalog, catalog_seqs, seqs, now, call>>

\* get_current_user, lines 103-154, the dependency of the profile route.
\* oauth2_scheme hands it the token of the Authorization header (401 when
\* there is no bearer header).
get_current_user(p) ==
    /\ pc[p] = "get_current_user"
    /\ LET authorization == call[p].authorization
           token == authorization[2]
           user_id == token[1].user_id
           user == UserById(user_id)
       IN  IF authorization = <<>> \/ SchemeLower(authorization[1]) # "bearer"
           THEN Unauthorized(p, "Not authenticated")
           ELSE IF token = <<>> \/ ~Decodes(token[1]) \/ user_id = NULL
           THEN Unauthorized(p, "Could not validate credentials")
           ELSE IF user = {}
           THEN Unauthorized(p, "Could not validate credentials")
           ELSE IF ~(CHOOSE u \in user : TRUE).is_active
           THEN Raise(p, HTTP_FORBIDDEN, "Inactive user") /\ UNCHANGED loc
           ELSE /\ pc' = [pc EXCEPT ![p] = "get_user_profile"]
                /\ loc' = [loc EXCEPT ![p].current_user = user_id]
                /\ UNCHANGED <<resp, tx, store, wrote>>
    /\ UNCHANGED <<catalog, catalog_seqs, tokens, seqs, now, call>>

\* get_user_profile, lines 132-148: the profile of current_user.
NoProfile == [id |-> NULL, username |-> "", email |-> "", is_active |-> FALSE]
get_user_profile(p) ==
    /\ pc[p] = "get_user_profile"
    /\ LET current_user == UserRow(loc[p].current_user)
       IN  Return(p, HTTP_OK, [NoProfile EXCEPT !.id = current_user.id,
                                                !.username = current_user.username,
                                                !.email = current_user.email,
                                                !.is_active = current_user.is_active])
    /\ UNCHANGED <<catalog, catalog_seqs, tokens, store, seqs, now, call, loc, tx, wrote>>
\* A store call (flush, query, commit, refresh) fails: the exception leaves
\* the handler.  After the commit there is nothing left to roll back.  In
\* delete_quiz_endpoint it is the query of line 139 that raises (a session
\* without the query API, as the AsyncSession of get_db, raises there), or
\* the commit of line 151, rolled back at line 155 (a store that enforces
\* the foreign keys of quiz_attempts and question_answers refuses it).  In
\* save_quiz_endpoint it is the query of line 92, a flush or the commit,
\* answered by the handler of lines 128-131.  In the logins and in
\* get_current_user it is the query of the user (auth_service.py, lines 64
\* and 141).
store_fault(p) ==
    /\ pc[p] \in {"submit_flush", "submit_grade", "submit_commit", "submit_refresh",
                  "start_commit", "start_refresh", "delete_quiz", "save_quiz",
                  "login", "routes_login", "get_current_user"}
    /\ Raise(p, HTTP_SERVER_ERROR, "StoreError")
    /\ UNCHANGED <<catalog, catalog_seqs, tokens, seqs, now, call, loc>>

\* ----------------------------------------------------------------- inputs
QuizIdInputs == {1, 2, 3, 9}
UserIdInputs == {1, 7}
AllUserIdInputs == {1, 2, 7}
SubmitUserInputs == {1}
StartQuizInputs == {1, 9}
AttemptIdInputs == 1..MaxAttempts
DeleteQuizInputs == {1, 9}
TimeInputs == {30}
\* "@" (the character before "A"), "A", "B", "Z", "b".
LetterInputs == {<<64>>, <<65>>, <<66>>, <<90>>, <<98>>}
\* ["C"] (the third option), and the lists with an entry that is not one
\* character: "", U+00DF ("SS" in upper case) and "AB"; alone, and before or
\* after "A".
ExtraLists ==
    {<<<<>>>>, <<<<67>>>>, <<<<223>>>>, <<<<65, 66>>>>,
     <<<<>>, <<65>>>>, <<<<65>>, <<>>>>, <<<<65>>, <<223>>>>,
     <<<<65>>, <<65, 66>>>>, <<<<223>>, <<65>>>>, <<<<65, 66>>, <<65>>>>}

\* One request at a time, of one session: the handlers of quiz.py over a
\* catalog that stays as it is, within one period of the clock.
Next ==
    \/ submit_call(1, QuizIdInputs, SubmitUserInputs, TimeInputs,
                   LetterInputs, ExtraLists)
    \/ submit_query_quiz(1)
    \/ submit_query_questions(1)
    \/ submit_flush(1)
    \/ submit_grade(1)
    \/ submit_commit(1)
    \/ submit_refresh(1)
    \/ start_call(1, StartQuizInputs, UserIdInputs)
    \/ start_check(1)
    \/ start_commit(1)
    \/ start_refresh(1)
    \/ list_call(1, UserIdInputs)
    \/ list_query(1)
    \/ list_build(1)
    \/ details_call(1, AttemptIdInputs)
    \/ details_query_attempt(1)
    \/ details_query_answers(1)
    \/ details_build(1)
    \/ store_fault(1)
    \/ session_close(1)

Spec == Init /\ [][Next]_vars

\* One request at a time, of one session: attempts of two users are started,
\* submitted and read back while time passes and quizzes are deleted.
\* ["A"] and ["Z"] answer the quiz of one question, ["B","A"] the
\* two-question quiz, the empty list neither.
LifeLetterLists == {<<<<65>>>>, <<<<90>>>>, <<<<66>>, <<65>>>>}

LifeNext ==
    \/ submit_call(1, {1, 3}, UserIdInputs, TimeInputs, {}, LifeLetterLists)
    \/ submit_query_quiz(1)
    \/ submit_query_questions(1)
    \/ submit_flush(1)
    \/ submit_grade(1)
    \/ submit_commit(1)
    \/ submit_refresh(1)
    \/ start_call(1, StartQuizInputs, AllUserIdInputs)
    \/ start_check(1)
    \/ start_commit(1)
    \/ start_refresh(1)
    \/ list_call(1, AllUserIdInputs)
    \/ list_query(1)
    \/ list_build(1)
    \/ details_call(1, AttemptIdInputs)
    \/ details_query_attempt(1)
    \/ details_query_answers(1)
    \/ details_build(1)
    \/ delete_call(1, DeleteQuizInputs, UserIdInputs)
    \/ delete_quiz_endpoint(1)
    \/ store_fault(1)
    \/ session_close(1)
    \/ tick

LifeInit == InitWith(OptionFlags)

LifeSpec == LifeInit /\ [][LifeNext]_vars

\* Two sessions whose requests interleave at every awaited store call, all
\* within one period of the clock.
ConcLetterLists == {<<<<65>>>>, <<<<65>>, <<90>>>>, <<<<98>>, <<65>>>>}

ConcNext ==
    \E p \in Procs :
        \/ submit_call(p, {1}, SubmitUserInputs, TimeInputs, {}, ConcLetterLists)
        \/ submit_query_quiz(p)
        \/ submit_query_questions(p)
        \/ submit_flush(p)
        \/ submit_grade(p)
        \/ submit_commit(p)
        \/ submit_refresh(p)
        \/ start_call(p, {1}, SubmitUserInputs)
        \/ start_check(p)
        \/ start_commit(p)
        \/ start_refresh(p)
        \/ list_call(p, SubmitUserInputs)
        \/ list_query(p)
        \/ list_build(p)
        \/ details_call(p, AttemptIdInputs)
        \/ details_query_attempt(p)
        \/ details_query_answers(p)
        \/ details_build(p)
        \/ store_fault(p)
        \/ session_close(p)

ConcInit == InitWith({<<FALSE, TRUE, TRUE>>})

ConcSpec == ConcInit /\ [][ConcNext]_vars

\* Quizzes are saved, one request at a time: by the authenticated user 1 or
\* 2, for user 1, 2 or the unknown user 7; with no question, with a
\* two-option question, with a question that lacks its options after a
\* well-formed one, and with a q_data that lacks its question.
SaveQuestionLists ==
    {<<>>,
     <<[options |-> <<"x">>, correct_answer |-> "x"]>>,
     <<[question |-> "Q", options |-> <<"x", "y">>, correct_answer |-> "y"]>>,
     <<[question |-> "Q", options |-> <<"x", "y">>, correct_answer |-> "y"],
       [question |-> "Q"]>>}

SaveNext ==
    \/ save_call(1, AllUserIdInputs, {1, 2}, SaveQuestionLists)
    \/ save_quiz_endpoint(1)
    \/ store_fault(1)
    \/ session_close(1)

SaveSpec == Init /\ [][SaveNext]_vars

\* Clients log in and call the profile route, one request at a time:
\* user 1 by username and by e-mail, user 2 by e-mail with the right and
\* with a wrong password; with every header a client can build from the
\* tokens handed out and from a token signed with another key.
AuthRequests ==
    {<<"POST", <<"auth", "login">>, <<"alice", "password1">>>>,
     <<"POST", <<"auth", "login">>, <<"bob@x.io", "password2">>>>,
     <<"POST", <<"auth", "login">>, <<"bob@x.io", "password9">>>>,
     <<"POST", <<"api", "auth", "login">>, <<"alice", "password1">>>>,
     <<"POST", <<"api", "auth", "login">>, <<"alice@x.io", "password1">>>>,
     <<"POST", <<"api", "auth", "login">>, <<"bob@x.io", "password2">>>>,
     <<"POST", <<"api", "auth", "login">>, <<"bob@x.io", "password9">>>>,
     <<"GET", <<"health">>, <<>>>>,
     <<"GET", <<"api", "auth", "me">>, <<>>>>,
     <<"OPTIONS", <<"api", "auth", "me">>, <<>>>>}
AuthSchemes == {"Bearer", "bearer", "Basic"}
ForgedTokens == {[user_id |-> 1, key |-> "other", sub |-> "alice", exp |-> 9]}

AuthNext ==
    \/ api_call(1, AuthRequests, AuthSchemes, ForgedTokens)
    \/ jwt_middleware(1)
    \/ not_found(1)
    \/ login(1)
    \/ routes_login(1)
    \/ get_current_user(1)
    \/ get_user_profile(1)
    \/ store_fault(1)
    \/ tick
    \/ session_close(1)

AuthSpec == Init /\ [][AuthNext]_vars
\* ================================================================= claims
\* What the claims speak of, stated over the tables and not through the
\* handlers' own operators.
Finished(p, op) == pc[p] = "done" /\ call[p].op = op
QuizExists(quiz_id) == \E q \in quizzes : q.id = quiz_id
QuestionIds(quiz_id) == {q.id : q \in {x \in questions : x.quiz_id = quiz_id}}
QuestionCount(quiz_id) == Cardinality(QuestionIds(quiz_id))
\* The k-th question of the quiz in ascending id order.
QuestionAt(quiz_id, k) ==
    CHOOSE q \in QuestionIds(quiz_id) :
        Cardinality({r \in QuestionIds(quiz_id) : r < q}) = k - 1
OptionsOf(question_id) == {o \in question_options : o.question_id = question_id}
\* A letter is one character whose upper-casing is one character.
WellFormed(letter) == Len(letter) = 1 /\ Len(upper(letter)) = 1
LetterIndex(letter) == upper(letter)[1] - OrdA
\* The options a letter designates: the one at its zero-based position in
\* ascending id order, none when the position is outside the options.
Designated(question_id, letter) ==
    {o \in OptionsOf(question_id) :
        /\ WellFormed(letter)
        /\ Cardinality({x \in OptionsOf(question_id) : x.id < o.id}) = LetterIndex(letter)}
OutOfRange(question_id, letter) ==
    /\ WellFormed(letter)
    /\ (LetterIndex(letter) < 0
        \/ LetterIndex(letter) >= Cardinality(OptionsOf(question_id)))
\* C of the claims: the positions whose letter designates a correct option.
CorrectPositions(quiz_id, letters) ==
    {k \in DOMAIN letters :
        /\ k <= QuestionCount(quiz_id)
        /\ \E o \in Designated(QuestionAt(quiz_id, k), letters[k]) : o.is_correct}
\* The value of a fraction is v: num = v * den.
IsValue(score, v) == Len(score) = 2 /\ score[2] # 0 /\ score[1] = v * score[2]
AttemptRows(attempt_id) == {a \in quiz_attempts : a.id = attempt_id}
AnswerRows(attempt_id) == {a \in question_answers : a.attempt_id = attempt_id}

\* C1: for an existing quiz, SubmitAttempt ends with the ValidationError
\* (status 400) exactly when the number of submitted letters differs from
\* the number of questions of the quiz.
C1_ValidationErrorIffCountDiffers ==
    \A p \in Procs :
        Finished(p, "submit") /\ QuizExists(call[p].quiz_id) =>
            (resp[p].status = HTTP_BAD_REQUEST
                <=> Len(call[p].selected_options) # QuestionCount(call[p].quiz_id))

C1_Witness ==
    \E p \in Procs :
        /\ Finished(p, "submit") /\ QuizExists(call[p].quiz_id)
        /\ resp[p].status = HTTP_BAD_REQUEST
        /\ Len(call[p].selected_options) > QuestionCount(call[p].quiz_id)

\* C2: a submission of N >= 1 letters that returns reports and persists
\* score = (C/N)*100, correct_answers = C and total_questions = N, where C
\* is the number of letters that designate a correct option; on the
\* two-question quiz "B","A" scores 100 and "A","B" scores 0.
C2_ScoreFormula ==
    \A p \in Procs :
        Finished(p, "submit") /\ resp[p].status = HTTP_OK =>
            LET n == QuestionCount(call[p].quiz_id)
                c == Cardinality(CorrectPositions(call[p].quiz_id, call[p].selected_options))
                body == resp[p].body
            IN  /\ n >= 1
                /\ Len(body.score) = 2 /\ body.score[2] # 0
                /\ body.score[1] * n = 100 * c * body.score[2]
                /\ body.correct_answers = c
                /\ body.total_questions = n
                /\ AttemptRows(body.attempt_id) # {}
                /\ \A a \in AttemptRows(body.attempt_id) : a.score = body.score
                /\ (call[p].quiz_id = 1 /\ call[p].selected_options = <<<<66>>, <<65>>>>
                        => IsValue(body.score, 100) /\ c = 2)
                /\ (call[p].quiz_id = 1 /\ call[p].selected_options = <<<<65>>, <<66>>>>
                        => IsValue(body.score, 0) /\ c = 0)

C2_Witness ==
    \E p \in Procs :
        /\ Finished(p, "submit") /\ resp[p].status = HTTP_OK
        /\ call[p].quiz_id = 1
        /\ IsValue(resp[p].body.score, 50)
        /\ \E a \in quiz_attempts : a.id = resp[p].body.attempt_id /\ IsValue(a.score, 50)

\* C3: round trip of the letter encoding.  When a submission returned and
\* GetAttemptDetail on its attempt returned, every question that has at most
\* 26 options and whose submitted letter L has 0 <= ord(L.upper())-ord('A')
\* < option count is reported with selected letter L.upper().
C3_LetterRoundTrip ==
    \A p, r \in Procs :
        /\ Finished(p, "submit") /\ resp[p].status = HTTP_OK
        /\ Finished(r, "details") /\ resp[r].status = HTTP_OK
        /\ call[r].attempt_id = resp[p].body.attempt_id
        => \A k \in DOMAIN call[p].selected_options :
            LET letter == call[p].selected_options[k]
                q == QuestionAt(call[p].quiz_id, k)
                entries == {e \in DOMAIN resp[r].body.answers :
                               resp[r].body.answers[e].question_id = q}
            IN  /\ Cardinality(OptionsOf(q)) <= 26
                /\ WellFormed(letter)
                /\ ~OutOfRange(q, letter)
                => /\ entries # {}
                   /\ \A e \in entries :
                        resp[r].body.answers[e].selected_option_letter = upper(letter)

\* A lower-case letter was submitted and read back in upper case.
C3_Witness ==
    \E p, r \in Procs :
        /\ Finished(p, "submit") /\ resp[p].status = HTTP_OK
        /\ Finished(r, "details") /\ resp[r].status = HTTP_OK
        /\ call[r].attempt_id = resp[p].body.attempt_id
        /\ call[p].selected_options[1] = <<98>>
        /\ \E e \in DOMAIN resp[r].body.answers :
              /\ resp[r].body.answers[e].question_id = 1
              /\ resp[r].body.answers[e].selected_option_letter = <<66>>

\* C4: a letter whose index is negative or >= the option count does not
\* fail the submission (only a store fault does); its Answer has
\* selected_option_id NULL and is_correct FALSE, it is not counted as
\* correct, and the other questions are graded: "Z","A" on the two-question
\* quiz scores 50.
C4_OutOfRangeTolerated ==
    \A p \in Procs :
        LET quiz_id == call[p].quiz_id
            letters == call[p].selected_options
        IN
        /\ Finished(p, "submit") /\ QuizExists(quiz_id)
        /\ Len(letters) = QuestionCount(quiz_id) /\ Len(letters) >= 1
        /\ \A k \in DOMAIN letters : WellFormed(letters[k])
        /\ \E k \in DOMAIN letters : OutOfRange(QuestionAt(quiz_id, k), letters[k])
        => /\ resp[p].error \in {"", "StoreError"}
           /\ resp[p].status = HTTP_OK =>
                /\ \A k \in DOMAIN letters :
                     LET q == QuestionAt(quiz_id, k)
                         rows == {a \in AnswerRows(resp[p].body.attempt_id) :
                                     a.question_id = q}
                     IN  /\ rows # {}
                         /\ OutOfRange(q, letters[k]) =>
                              \A a \in rows : a.selected_option_id = NULL
                                              /\ a.is_correct = FALSE
                         /\ ~OutOfRange(q, letters[k]) =>
                              \A a \in rows :
                                \E o \in Designated(q, letters[k]) :
                                    /\ a.selected_option_id = o.id
                                    /\ a.is_correct = o.is_correct
                /\ resp[p].body.correct_answers
                       = Cardinality(CorrectPositions(quiz_id, letters))
                /\ (quiz_id = 1 /\ letters = <<<<90>>, <<65>>>>
                        => IsValue(resp[p].body.score, 50))

\* "@","A" (a negative index) on the two-question quiz returned with score 50.
C4_Witness ==
    \E p \in Procs :
        /\ Finished(p, "submit") /\ resp[p].status = HTTP_OK
        /\ call[p].quiz_id = 1
        /\ call[p].selected_options = <<<<64>>, <<65>>>>
        /\ IsValue(resp[p].body.score, 50)
        /\ \E a \in AnswerRows(resp[p].body.attempt_id) :
              a.question_id = 1 /\ a.selected_option_id = NULL /\ ~a.is_correct

\* C5: when a step of SubmitAttempt after the insertion of the Attempt row
\* fails, no Attempt row and no Answer row of that submission is in the
\* store once the operation has ended.
C5_FailedSubmissionLeavesNoRows ==
    \A p \in Procs :
        Finished(p, "submit") /\ resp[p].status # HTTP_OK =>
            \A a \in loc[p].attempt :
                AttemptRows(a.id) = {} /\ AnswerRows(a.id) = {}

\* C6: a SubmitAttempt that fails validation (no such quiz: 404; letter
\* count differs from question count: 400) ends with that error and leaves
\* the attempt and answer tables as they were: no step of the request
\* changes them.
C6_ValidationFailureWritesNothing ==
    \A p \in Procs :
        LET absent == ~QuizExists(call[p].quiz_id)
            differs == Len(call[p].selected_options) # QuestionCount(call[p].quiz_id)
        IN  Finished(p, "submit") /\ (absent \/ differs) =>
                /\ resp[p].status = IF absent THEN HTTP_NOT_FOUND ELSE HTTP_BAD_REQUEST
                /\ ~wrote[p]
                /\ tx[p] = NoTx

\* A submission was rejected with 400 while the tables held rows.
C6_Witness ==
    \E p \in Procs :
        /\ Finished(p, "submit") /\ resp[p].status = HTTP_BAD_REQUEST
        /\ quiz_attempts # {} /\ question_answers # {}
        /\ ~wrote[p]

\* C7: a reader never holds an Attempt created by a submission together
\* with fewer Answer rows than the quiz has questions, or with a null score.
C7_ReadersSeeWholeAttempts ==
    \A p \in Procs :
        /\ (call[p].op = "details" /\ pc[p] \in {"details_build", "done"} =>
               \A a \in loc[p].attempt :
                   a.completed_at # NULL =>
                       /\ a.score # None
                       /\ Len(loc[p].answers) = QuestionCount(a.quiz_id))
        /\ (call[p].op = "list" /\ pc[p] \in {"list_build", "done"} =>
               \A k \in DOMAIN loc[p].attempts :
                   loc[p].attempts[k].completed_at # NULL =>
                       loc[p].attempts[k].score # None)

\* A reader holds a submitted attempt and its answers while the other
\* session is in the middle of a submission.
C7_Witness ==
    \E p, r \in Procs :
        /\ call[p].op = "details" /\ pc[p] = "details_build"
        /\ \E a \in loc[p].attempt : a.completed_at # NULL
        /\ Len(loc[p].answers) = 2
        /\ pc[r] = "submit_commit" /\ tx[r].answers # {}

\* C8: every committed Attempt of a submission has exactly one Answer row
\* for each question of its quiz and none for another question.  (A quiz
\* changes by its deletion only: while it exists its questions are those it
\* had at submission time.)
C8_OneAnswerPerQuestion ==
    \A a \in quiz_attempts :
        a.completed_at # NULL /\ QuizExists(a.quiz_id) =>
            /\ \A q \in QuestionIds(a.quiz_id) :
                 Cardinality({r \in AnswerRows(a.id) : r.question_id = q}) = 1
            /\ \A r \in AnswerRows(a.id) : r.question_id \in QuestionIds(a.quiz_id)

\* A committed attempt with one out-of-range and one in-range selection.
C8_Witness ==
    \E a \in quiz_attempts :
        /\ a.completed_at # NULL /\ a.quiz_id = 1
        /\ \E r \in AnswerRows(a.id) : r.selected_option_id = NULL
        /\ \E r \in AnswerRows(a.id) : r.selected_option_id # NULL

\* C9: a committed submission's Attempt row and Answer rows are left as they
\* are by every step of every later request.
C9_CommittedRowsImmutable ==
    [][\A a \in quiz_attempts :
          a.completed_at # NULL =>
              /\ {x \in quiz_attempts' : x.id = a.id} = {a}
              /\ {r \in question_answers' : r.attempt_id = a.id} = AnswerRows(a.id)]_vars

\* Attempt 1 is a committed submission and a later submission has committed.
C9_Witness ==
    \E a, b \in quiz_attempts :
        /\ a.id = 1 /\ a.completed_at # NULL /\ AnswerRows(1) # {}
        /\ b.id = 2 /\ b.completed_at # NULL /\ AnswerRows(2) # {}

\* C10: SubmitAttempt on an existing quiz without questions, with no letter,
\* does not end in a division error: it commits an Attempt of score 0 or
\* rejects the quiz and writes nothing.
C10_NoDivisionError ==
    \A p \in Procs :
        /\ Finished(p, "submit") /\ QuizExists(call[p].quiz_id)
        /\ QuestionCount(call[p].quiz_id) = 0 /\ call[p].selected_options = <<>>
        => /\ resp[p].error # "ZeroDivisionError"
           /\ resp[p].status = HTTP_OK => IsValue(resp[p].body.score, 0)
           /\ resp[p].status # HTTP_OK => ~wrote[p]

\* C11: a malformed entry among the submitted letters (empty, longer than
\* one character, or with an upper-casing that is not one character) never
\* fails the submission: it is committed with a score, and the question of
\* that entry has an Answer with selected_option_id NULL and is_correct FALSE.
C11_MalformedTolerated ==
    \A p \in Procs :
        LET quiz_id == call[p].quiz_id
            letters == call[p].selected_options
        IN
        /\ Finished(p, "submit") /\ QuizExists(quiz_id)
        /\ Len(letters) = QuestionCount(quiz_id)
        /\ \E k \in DOMAIN letters : ~WellFormed(letters[k])
        => /\ resp[p].error \in {"", "StoreError"}
           /\ resp[p].status = HTTP_OK =>
                /\ Len(resp[p].body.score) = 2
                /\ \A k \in DOMAIN letters :
                     ~WellFormed(letters[k]) =>
                        LET rows == {a \in AnswerRows(resp[p].body.attempt_id) :
                                        a.question_id = QuestionAt(quiz_id, k)}
                        IN  /\ rows # {}
                            /\ \A a \in rows : a.selected_option_id = NULL
                                                /\ a.is_correct = FALSE

\* C12: the entries of a transcript returned by GetAttemptDetail are in
\* ascending question-id order, in whatever order the store returned the
\* attempt's Answer rows.
C12_EntriesInQuestionOrder ==
    \A p \in Procs :
        Finished(p, "details") /\ resp[p].status = HTTP_OK =>
            LET entries == resp[p].body.answers IN
            \A i, j \in DOMAIN entries :
                i < j => entries[i].question_id < entries[j].question_id

\* C13: GetAttemptDetail on an existing attempt that has an Answer row whose
\* Question no longer exists returns the transcript, with question text
\* "Unknown" in the entry of that answer.
C13_MissingQuestionIsUnknown ==
    \A p \in Procs :
        LET orphans == {a \in AnswerRows(call[p].attempt_id) :
                           ~\E q \in questions : q.id = a.question_id}
        IN  /\ Finished(p, "details")
            /\ AttemptRows(call[p].attempt_id) # {}
            /\ orphans # {}
            => /\ resp[p].status = HTTP_OK
               /\ \A a \in orphans :
                    \E k \in DOMAIN resp[p].body.answers :
                        /\ resp[p].body.answers[k].selected_option_id = a.selected_option_id
                        /\ resp[p].body.answers[k].is_correct = a.is_correct
                        /\ resp[p].body.answers[k].question_text = "Unknown"

\* C14: when the Quiz of an Attempt no longer exists, GetAttemptDetail on
\* that attempt and ListUserAttempts of its user return, with quiz title
\* "Unknown" for it; GetAttemptDetail ends with NotFound only when no
\* Attempt has the requested id.
C14_MissingQuizIsUnknown ==
    \A p \in Procs :
        /\ Finished(p, "details") =>
              /\ resp[p].status = HTTP_NOT_FOUND => AttemptRows(call[p].attempt_id) = {}
              /\ \A a \in AttemptRows(call[p].attempt_id) :
                    ~QuizExists(a.quiz_id) =>
                        /\ resp[p].status = HTTP_OK
                        /\ resp[p].body.quiz_title = "Unknown"
        /\ Finished(p, "list") =>
              /\ resp[p].status = HTTP_OK
              /\ \A a \in {x \in quiz_attempts : x.user_id = call[p].user_id} :
                    ~QuizExists(a.quiz_id) =>
                        \E k \in DOMAIN resp[p].body :
                            /\ resp[p].body[k].attempt_id = a.id
                            /\ resp[p].body[k].quiz_title = "Unknown"

\* C15: in a transcript, the correct letter of an entry is chr('A' + i) for
\* the position i, in ascending option-id order, of the first correct option
\* of the question, and null when the question has no correct option; the
\* selected letter is null when the Answer's selected_option_id is null or is
\* the id of no option of the question.
C15_LettersOfAnEntry ==
    \A p \in Procs :
        Finished(p, "details") /\ resp[p].status = HTTP_OK =>
            \A k \in DOMAIN resp[p].body.answers :
                LET e == resp[p].body.answers[k]
                    opts == OptionsOf(e.question_id)
                    correct == {o \in opts : o.is_correct}
                    first == CHOOSE o \in correct : \A x \in correct : o.id <= x.id
                IN  /\ correct = {} => e.correct_option_letter = None
                    /\ correct # {} =>
                         e.correct_option_letter =
                             <<OrdA + Cardinality({x \in opts : x.id < first.id})>>
                    /\ (e.selected_option_id = NULL
                        \/ ~\E o \in opts : o.id = e.selected_option_id)
                       => e.selected_option_letter = None

\* A transcript of the quiz whose question has two correct options
\* (wrong,correct,correct), with no selected option: the correct letter is
\* "B" and the selected letter is null.
C15_Witness ==
    \E p \in Procs :
        /\ Finished(p, "details") /\ resp[p].status = HTTP_OK
        /\ \E k \in DOMAIN resp[p].body.answers :
              LET e == resp[p].body.answers[k] IN
              /\ e.question_id = 3
              /\ Cardinality({o \in OptionsOf(3) : o.is_correct}) = 2
              /\ e.correct_option_letter = <<66>>
              /\ e.selected_option_id = NULL
              /\ e.selected_option_letter = None

\* C16: ListUserAttempts(user) returns the Attempt rows of that user, those
\* made by StartAttempt and those made by SubmitAttempt, each once and none
\* of another user, the later started_at first.
C16_ListIsTheUsersAttempts ==
    \A p \in Procs :
        Finished(p, "list") =>
            LET body == resp[p].body
                mine == {a \in quiz_attempts : a.user_id = call[p].user_id}
            IN  /\ resp[p].status = HTTP_OK
                /\ {body[k].attempt_id : k \in DOMAIN body} = {a.id : a \in mine}
                /\ Len(body) = Cardinality(mine)
                /\ \A k \in DOMAIN body :
                     \E a \in mine : /\ a.id = body[k].attempt_id
                                     /\ a.started_at = body[k].started_at
                                     /\ a.completed_at = body[k].completed_at
                                     /\ a.score = body[k].score
                /\ \A i, j \in DOMAIN body :
                     i < j => body[i].started_at >= body[j].started_at

\* A list of two attempts of the user, a started one and a submitted one,
\* of different started_at.
C16_Witness ==
    \E p \in Procs :
        /\ Finished(p, "list") /\ Len(resp[p].body) = 2
        /\ resp[p].body[1].started_at > resp[p].body[2].started_at
        /\ \E k \in 1..2 : resp[p].body[k].completed_at = NULL
        /\ \E k \in 1..2 : resp[p].body[k].completed_at # NULL

\* C17: StartAttempt(quiz, user) ends with NotFound and inserts nothing when
\* the quiz or the user does not exist.  Otherwise the only rows it writes
\* are one Attempt row with that quiz and user, completed_at NULL and score
\* NULL, under an id no row has, with no Answer row; when it returns, the id
\* it returns is the id of that row.  (Otherwise it ends with an error only
\* when a store call fails.)
C17_StartAttempt ==
    [][\A p \in Procs :
          call'[p].op = "start" =>
              LET quiz_id == call'[p].quiz_id
                  user_id == call'[p].user_id
                  missing == ~QuizExists(quiz_id) \/ user_id \notin users
                  IsNew(a) == /\ a.quiz_id = quiz_id /\ a.user_id = user_id
                              /\ a.completed_at = NULL /\ a.score = None
                              /\ ~\E r \in question_answers' : r.attempt_id = a.id
              IN  /\ Changed =>
                        /\ ~missing /\ ~wrote[p]
                        /\ question_answers' = question_answers
                        /\ \E a \in quiz_attempts' :
                              /\ quiz_attempts' = quiz_attempts \cup {a}
                              /\ AttemptRows(a.id) = {}
                              /\ IsNew(a)
                  /\ pc'[p] = "done" =>
                        /\ missing => resp'[p].status = HTTP_NOT_FOUND /\ ~wrote'[p]
                        /\ ~missing => resp'[p].error \in {"", "StoreError"}
                        /\ resp'[p].status = HTTP_OK =>
                              /\ wrote'[p]
                              /\ \E a \in quiz_attempts' :
                                    a.id = resp'[p].body.attempt_id /\ IsNew(a)]_vars

\* A second attempt was started and returned, for user 2.
C17_Witness ==
    \E p \in Procs :
        /\ Finished(p, "start") /\ resp[p].status = HTTP_OK
        /\ call[p].user_id = 2 /\ resp[p].body.attempt_id = 2
        /\ \E a \in quiz_attempts : a.id = 2 /\ a.user_id = 2 /\ a.completed_at = NULL
        /\ AnswerRows(2) = {}

\* The selections recorded for an attempt.
Selections(attempt_id) ==
    {<<r.question_id, r.selected_option_id>> : r \in AnswerRows(attempt_id)}

\* C18: SubmitAttempt does not depend on StartAttempt.  A row added to the
\* attempts has an id no earlier row has; a submission that returns reports
\* the score of its letters, whatever attempts were started or submitted
\* before, and two submitted attempts of one quiz with the same selections
\* have the same score under different ids; a row made by StartAttempt stays
\* as it is (completed_at NULL, score NULL, no Answer row) in every step.
C18_SubmitIndependentOfStart ==
    [][/\ \A a \in quiz_attempts' \ quiz_attempts : AttemptRows(a.id) = {}
       /\ \A a \in quiz_attempts :
             a.completed_at = NULL =>
                 /\ a \in quiz_attempts' /\ a.score = None
                 /\ ~\E r \in question_answers' : r.attempt_id = a.id
       /\ \A p \in Procs :
             call'[p].op = "submit" /\ pc'[p] = "done" /\ resp'[p].status = HTTP_OK =>
                 LET body == resp'[p].body
                     n == QuestionCount(call'[p].quiz_id)
                     c == Cardinality(CorrectPositions(call'[p].quiz_id,
                                                       call'[p].selected_options))
                 IN  /\ body.correct_answers = c
                     /\ Len(body.score) = 2
                     /\ body.score[1] * n = 100 * c * body.score[2]
                     /\ \E a \in quiz_attempts' :
                           /\ a.id = body.attempt_id /\ a.completed_at # NULL
                           /\ a.score = body.score
                           /\ \A b \in quiz_attempts' :
                                 /\ b.completed_at # NULL /\ b.quiz_id = a.quiz_id
                                 /\ {<<r.question_id, r.selected_option_id>> :
                                        r \in {x \in question_answers' : x.attempt_id = b.id}}
                                    = {<<r.question_id, r.selected_option_id>> :
                                        r \in {x \in question_answers' : x.attempt_id = a.id}}
                                 => /\ b.score = a.score
                                    /\ b # a => b.id # a.id]_vars

\* A submission returned for the quiz and user of an attempt that was
\* started before and is still as StartAttempt made it.
C18_Witness ==
    \E p \in Procs, a \in quiz_attempts :
        /\ Finished(p, "submit") /\ resp[p].status = HTTP_OK
        /\ resp[p].body.attempt_id = 2
        /\ a.id = 1 /\ a.completed_at = NULL /\ a.score = None
        /\ a.quiz_id = call[p].quiz_id /\ a.user_id = call[p].user_id
        /\ AnswerRows(1) = {} /\ AnswerRows(2) # {}

\* A submission was retried: two submitted attempts with the same
\* selections.
C18_RetryReached ==
    \E a, b \in quiz_attempts :
        /\ a.id # b.id /\ a.completed_at # NULL /\ b.completed_at # NULL
        /\ a.quiz_id = b.quiz_id /\ Selections(a.id) = Selections(b.id)

\* C19: two submissions for the same quiz and user that run at the same
\* time end with no error of their own (only a failing store call ends one)
\* and, when both have returned, have two different Attempts; each Attempt
\* has one Answer row per question, with the option its own letter
\* designates, and the score of its own letters; no Answer row belongs to
\* two attempts.
C19_ConcurrentSubmissionsIndependent ==
    /\ \A r1, r2 \in question_answers : r1.id = r2.id => r1 = r2
    /\ \A p \in Procs :
          /\ Finished(p, "submit")
          /\ Len(call[p].selected_options) = QuestionCount(call[p].quiz_id)
          => resp[p].error \in {"", "StoreError"}
    /\ \A p, r \in Procs :
          /\ p # r
          /\ Finished(p, "submit") /\ resp[p].status = HTTP_OK
          /\ Finished(r, "submit") /\ resp[r].status = HTTP_OK
          /\ call[p].quiz_id = call[r].quiz_id /\ call[p].user_id = call[r].user_id
          => /\ resp[p].body.attempt_id # resp[r].body.attempt_id
             /\ LET quiz_id == call[p].quiz_id
                     letters == call[p].selected_options
                     id == resp[p].body.attempt_id
                     n == QuestionCount(quiz_id)
                     c == Cardinality(CorrectPositions(quiz_id, letters))
                 IN  /\ Cardinality(AttemptRows(id)) = 1
                     /\ Cardinality(AnswerRows(id)) = n
                     /\ \A k \in DOMAIN letters :
                          LET q == QuestionAt(quiz_id, k)
                              rows == {a \in AnswerRows(id) : a.question_id = q}
                          IN  /\ Cardinality(rows) = 1
                              /\ \A a \in rows :
                                   IF Designated(q, letters[k]) = {}
                                   THEN a.selected_option_id = NULL /\ ~a.is_correct
                                   ELSE \E o \in Designated(q, letters[k]) :
                                          /\ a.selected_option_id = o.id
                                          /\ a.is_correct = o.is_correct
                     /\ \A a \in AttemptRows(id) :
                          /\ a.score = resp[p].body.score
                          /\ Len(a.score) = 2
                          /\ a.score[1] * n = 100 * c * a.score[2]

\* Two submissions with different letters have both returned; their grading
\* loops alternated: the answers of attempt 1 have the ids 1 and 3.
C19_Witness ==
    \E p, r \in Procs :
        /\ p # r
        /\ Finished(p, "submit") /\ resp[p].status = HTTP_OK
        /\ Finished(r, "submit") /\ resp[r].status = HTTP_OK
        /\ resp[p].body.attempt_id = 1 /\ resp[r].body.attempt_id = 2
        /\ IsValue(resp[p].body.score, 100) /\ IsValue(resp[r].body.score, 0)
        /\ {a.id : a \in AnswerRows(1)} = {1, 3}
        /\ {a.id : a \in AnswerRows(2)} = {2, 4}

\* C20: the step in which a delete of quiz Q by its creator succeeds leaves
\* no quiz Q, no Question of Q and no Option of a Question of Q in the
\* store, and leaves the other quizzes, their questions and their options
\* as they were.
C20_DeleteCascades ==
    [][\A p \in Procs :
          /\ call[p].op = "delete" /\ pc[p] = "delete_quiz"
          /\ pc'[p] = "done" /\ resp'[p].status = HTTP_OK
          => LET Q == call[p].quiz_id
                 OfQ(question_id) == \E x \in questions :
                                        x.id = question_id /\ x.quiz_id = Q
             IN  /\ \E q \in quizzes : q.id = Q /\ q.creator_id = call[p].user_id
                 /\ quizzes' = {q \in quizzes : q.id # Q}
                 /\ questions' = {x \in questions : x.quiz_id # Q}
                 /\ question_options' =
                        {o \in question_options : ~OfQ(o.question_id)}
                 /\ ~\E o \in question_options' : OfQ(o.question_id)]_vars

\* Quiz 1 was deleted by its creator: its two questions and eight options
\* are gone, the question and the options of quiz 3 are there.
C20_Witness ==
    \E p \in Procs :
        /\ Finished(p, "delete") /\ resp[p].status = HTTP_OK
        /\ call[p].quiz_id = 1
        /\ ~QuizExists(1) /\ QuizExists(3)
        /\ QuestionIds(1) = {} /\ QuestionIds(3) = {3}
        /\ OptionsOf(1) = {} /\ OptionsOf(2) = {}
        /\ Cardinality(OptionsOf(3)) = 3
        /\ \E a \in quiz_attempts : a.quiz_id = 1

\* C21: the stored score of every committed Attempt of a submission that has
\* N >= 1 Answer rows agrees with those rows: score * N = 100 * (number of
\* its Answer rows with is_correct), and 0 <= score <= 100.
C21_ScoreMatchesAnswers ==
    \A a \in quiz_attempts :
        a.completed_at # NULL /\ AnswerRows(a.id) # {} =>
            LET N == Cardinality(AnswerRows(a.id))
                correct == Cardinality({r \in AnswerRows(a.id) : r.is_correct})
            IN  /\ Len(a.score) = 2 /\ a.score[2] > 0
                /\ a.score[1] * N = 100 * correct * a.score[2]
                /\ 0 <= a.score[1] /\ a.score[1] <= 100 * a.score[2]

\* A committed attempt with two Answer rows, one of them correct, and the
\* score 50.
C21_Witness ==
    \E a \in quiz_attempts :
        /\ a.completed_at # NULL
        /\ Cardinality(AnswerRows(a.id)) = 2
        /\ Cardinality({r \in AnswerRows(a.id) : r.is_correct}) = 1
        /\ IsValue(a.score, 50)

\* C22: in a transcript, the entry of a question that has exactly one correct
\* option is marked correct exactly when its selected letter is not null and
\* is its correct letter.
C22_CorrectIffLettersAgree ==
    \A p \in Procs :
        Finished(p, "details") /\ resp[p].status = HTTP_OK =>
            \A k \in DOMAIN resp[p].body.answers :
                LET e == resp[p].body.answers[k] IN
                Cardinality({o \in OptionsOf(e.question_id) : o.is_correct}) = 1 =>
                    (e.is_correct
                        <=> /\ e.selected_option_letter # None
                            /\ e.selected_option_letter = e.correct_option_letter)

\* A transcript of the two-question quiz with a correct entry whose letters
\* agree and a wrong entry whose selected letter is another one.
C22_Witness ==
    \E p \in Procs :
        /\ Finished(p, "details") /\ resp[p].status = HTTP_OK
        /\ \E i, j \in DOMAIN resp[p].body.answers :
              LET e == resp[p].body.answers[i]
                  f == resp[p].body.answers[j]
              IN  /\ e.is_correct /\ e.selected_option_letter = e.correct_option_letter
                  /\ e.selected_option_letter # None
                  /\ ~f.is_correct /\ f.selected_option_letter # None
                  /\ f.selected_option_letter # f.correct_option_letter
                  /\ \A x \in {e.question_id, f.question_id} :
                        Cardinality({o \in OptionsOf(x) : o.is_correct}) = 1

\* With two correct options the equivalence is lost: an entry is marked
\* correct while its selected letter is not the correct letter.
C22_TwoCorrectOptions ==
    \E p \in Procs :
        /\ Finished(p, "details") /\ resp[p].status = HTTP_OK
        /\ \E k \in DOMAIN resp[p].body.answers :
              LET e == resp[p].body.answers[k] IN
              /\ Cardinality({o \in OptionsOf(e.question_id) : o.is_correct}) = 2
              /\ e.is_correct
              /\ e.selected_option_letter # None
              /\ e.selected_option_letter # e.correct_option_letter

\* C23: every Answer row of a submission, pending or committed, is
\* well-linked: its question is a question of the quiz of its attempt; a
\* non-null selected_option_id is the id of an option of that question and
\* is_correct is that option's is_correct; is_correct is never TRUE with
\* selected_option_id NULL.
C23_AnswersWellLinked ==
    LET attempts == quiz_attempts \cup UNION {tx[p].attempts : p \in Procs}
        answers == question_answers \cup UNION {tx[p].answers : p \in Procs}
    IN  \A r \in answers :
            /\ \E a \in attempts :
                  /\ a.id = r.attempt_id /\ a.completed_at # NULL
                  /\ r.question_id \in QuestionIds(a.quiz_id)
            /\ r.selected_option_id # NULL =>
                  \E o \in OptionsOf(r.question_id) :
                      o.id = r.selected_option_id /\ o.is_correct = r.is_correct
            /\ r.is_correct => r.selected_option_id # NULL

\* A committed attempt on the two-question quiz holds a correct answer with
\* its option and an answer without an option, while a later submission has
\* a pending answer on the third option of question 3.
C23_Witness ==
    /\ \E r \in question_answers :
          r.question_id = 1 /\ r.selected_option_id = 2 /\ r.is_correct
    /\ \E r \in question_answers :
          r.question_id = 2 /\ r.selected_option_id = NULL /\ ~r.is_correct
    /\ \E p \in Procs : \E r \in tx[p].answers :
          r.question_id = 3 /\ r.selected_option_id = 11 /\ r.is_correct

\* C24: StartAttempt and SubmitAttempt create no Attempt row for a user that
\* does not exist: a call that names an absent user or an absent quiz ends
\* with NotFound and writes nothing.
C24_AbsentUserOrQuizRejected ==
    /\ \A a \in quiz_attempts : a.user_id \in users
    /\ \A p \in Procs :
          /\ pc[p] = "done" /\ call[p].op \in {"start", "submit"}
          /\ (call[p].user_id \notin users \/ ~QuizExists(call[p].quiz_id))
          => resp[p].status = HTTP_NOT_FOUND /\ ~wrote[p]

\* C25: a delete request for a quiz by a user who is not its creator ends
\* with status 403, and one for a quiz id that no quiz has ends with 404;
\* both leave the quizzes, the questions and the options as they were.
C25_OnlyCreatorDeletes ==
    [][\A p \in Procs :
          /\ call[p].op = "delete" /\ pc[p] = "delete_quiz" /\ pc'[p] = "done"
          => LET quiz == {q \in quizzes : q.id = call[p].quiz_id}
                 unchanged == /\ quizzes' = quizzes
                              /\ questions' = questions
                              /\ question_options' = question_options
             IN  /\ quiz = {} => resp'[p].status = HTTP_NOT_FOUND /\ unchanged
                 /\ \A q \in quiz :
                       q.creator_id # call[p].user_id =>
                           resp'[p].status = HTTP_FORBIDDEN /\ unchanged]_vars

\* The part of C25 that holds: whatever its status, a delete request
\* changes the catalog only when the quiz exists and the user is its creator.
C25_OthersChangeNothing ==
    [][\A p \in Procs :
          /\ call[p].op = "delete" /\ pc[p] = "delete_quiz"
          /\ ~\E q \in quizzes : q.id = call[p].quiz_id
                                 /\ q.creator_id = call[p].user_id
          => /\ quizzes' = quizzes
             /\ questions' = questions
             /\ question_options' = question_options]_vars

\* C26: save_quiz for a user_id that is not the authenticated user's id ends
\* with status 403 (with 403 or 404 when no user has that id) and with no
\* other status; and a save_quiz that fails, for whatever reason, leaves the
\* quizzes, the questions and the options as they were.
C26_SaveForOthersRejected ==
    [][\A p \in Procs :
          /\ call[p].op = "save" /\ pc[p] = "save_quiz" /\ pc'[p] = "done"
          => LET unchanged == /\ quizzes' = quizzes
                              /\ questions' = questions
                              /\ question_options' = question_options
             IN  /\ call[p].user_id # call[p].current_user =>
                       /\ unchanged
                       /\ resp'[p].status \in
                              IF call[p].user_id \in users
                              THEN {HTTP_FORBIDDEN}
                              ELSE {HTTP_FORBIDDEN, HTTP_NOT_FOUND}
                 /\ resp'[p].status # HTTP_OK => unchanged]_vars

\* The part of C26 that holds: only a save_quiz that returns with status 200
\* changes the catalog, and it does so only for the authenticated user.
C26_FailedSaveLeavesNoRow ==
    [][\A p \in Procs :
          call[p].op = "save" /\ pc[p] = "save_quiz" =>
              \/ /\ quizzes' = quizzes
                 /\ questions' = questions
                 /\ question_options' = question_options
              \/ /\ resp'[p].status = HTTP_OK
                 /\ call[p].user_id = call[p].current_user
                 /\ \A q \in quizzes' \ quizzes :
                       q.creator_id = call[p].current_user]_vars

\* The request of p carries "Bearer <token>", and the token is one the login
\* of /api/auth has handed out for an existing user: its sub is the user's
\* e-mail and its user_id the user's id.
BearerToken(p) == call[p].authorization[2][1]
PresentsBearer(p) ==
    /\ call[p].op = "api"
    /\ call[p].authorization # <<>>
    /\ call[p].authorization[1] = "Bearer"
    /\ call[p].authorization[2] # <<>>
IssuedByLogin(token) ==
    /\ token \in tokens
    /\ \E u \in UserRows : token.sub = u.email /\ token.user_id = u.id

\* C27: a token handed out by login for user U and presented, before it
\* expires, as a Bearer token on a request to a path under /api is accepted
\* by jwt_middleware, which resolves it to U (request.state.user), and by
\* get_current_user, which resolves it to U (current_user).
C27_LoginTokenResolvesToItsUser ==
    [][\A p \in Procs :
          /\ PresentsBearer(p)
          /\ IssuedByLogin(BearerToken(p))
          /\ now <= BearerToken(p).exp
          /\ call[p].path[1] = "api" /\ call[p].method # "OPTIONS"
          /\ pc'[p] # pc[p]
          => /\ pc[p] = "jwt_middleware" =>
                   /\ pc'[p] # "done"
                   /\ loc'[p].state_user = BearerToken(p).user_id
             /\ pc[p] = "get_current_user" =>
                   /\ pc'[p] = "get_user_profile"
                   /\ loc'[p].current_user = BearerToken(p).user_id]_vars

\* A part of C27 that holds: when get_current_user lets the profile route
\* run, current_user is the user whose id the token carries, and login has
\* handed the token out for that user.
C27_CurrentUserIsTokenUser ==
    \A p \in Procs :
        pc[p] = "get_user_profile" =>
            /\ IssuedByLogin(BearerToken(p))
            /\ loc[p].current_user = BearerToken(p).user_id

\* The other part of C27 that holds: a request to a path under /api is at
\* its route's handler only if it is no OPTIONS request and carries a bearer
\* token that the application has signed for an existing user.
C27_HandlerBehindToken ==
    \A p \in Procs :
        /\ call[p].op = "api"
        /\ pc[p] \in {"login", "get_current_user", "get_user_profile"}
        /\ call[p].path[1] = "api"
        => /\ call[p].method # "OPTIONS"
           /\ call[p].authorization # <<>>
           /\ call[p].authorization[1] \in {"Bearer", "bearer"}
           /\ call[p].authorization[2] # <<>>
           /\ BearerToken(p) \in tokens
           /\ \E u \in UserRows :
                 \/ BearerToken(p).sub = u.username
                 \/ BearerToken(p).sub = u.email /\ BearerToken(p).user_id = u.id

=============================================================================
